---- MODULE Spec2Model ----
\* The Hypercube maze engine of MetabolicGrimoire, in its two variants:
\*   extended : src/hc-2.js           (size 4, turn counter, visited is a Map)
\*   minimal  : src/unnamed/part_000  (size 5, no turn counter, visited is a Set)
\* The engine is driven by direct calls of its methods (Spec, SpecRevisit, SpecView)
\* or by the command loop `prompt` of either program (SpecLoop, SpecGame, SpecMemory).
EXTENDS Integers, Sequences, FiniteSets, TLC

VARIABLES
    variant,    \* "extended" or "minimal": which of the two programs runs
    size,       \* this.size
    exit,       \* this.exit
    position,   \* this.position
    turn,       \* this.turn (extended); the minimal engine has no such field, the variable stays 0
    visited,    \* this.visited: key -> [trap, turn] (extended Map), set of keys (minimal Set)
    keys,       \* the keys of the extended Map in insertion order (the order Map.entries() yields)
    game,       \* the process: "Active" while it reads commands, else how it ended
    output,     \* what the latest handler wrote to the console
    rng,        \* a call of secureRandomInt: its argument, its latest draw, its return value
    search,     \* the cells a player can stand on after a number of moves without a trap
    last,       \* the latest call: its argument, the state it started from, its return value
    history,    \* history variable: one record per move call that returned a success result
    limit       \* model bound of the run: it ends after this many calls returned a success result

vars == <<variant, size, exit, position, turn, visited, keys, game, output, rng, search,
          last, history, limit>>

----------------------------------------------------------------------------
\* Bounds of the model

\* a run of Spec ends after this many move calls returned a success result
MaxMoves == 2

\* a run of SpecRevisit ends after this many move calls returned a success result
MaxRevisitMoves == 3

\* a run of SpecLoop passes no line to move after this many move calls returned a
\* success result
MaxLoopMoves == 1

\* the same for a run of SpecGame, long enough to reach the center on a later turn
MaxGameMoves == 2

\* the same for a run of SpecMemory, long enough to leave a visited cell behind
MaxMemoryMoves == 2

\* a run of SpecView makes at most this many move calls that return a success result
MaxViewMoves == 2

\* the number of values of the random word (2^32 in the programs)
WordValues == 64

\* secureRandomInt is called with max in 1 .. MaxRandomMax
MaxRandomMax == 16

\* the search of SpecSearch follows sequences of at most this many direction commands
MaxSearchSteps == 8

----------------------------------------------------------------------------
\* Program constants

ExtendedSize == 4
MinimalSize == 5
TrapModulus == 97

Axes == {"x", "y", "z", "w"}

\* the eight own properties of the object literal `deltas`
ValidTokens == {"xp", "xn", "yp", "yn", "zp", "zn", "wp", "wn"}

\* property names every object literal inherits from Object.prototype
ObjectPrototypeKeys ==
    {"constructor", "toString", "valueOf", "hasOwnProperty", "__proto__",
     "isPrototypeOf", "propertyIsEnumerable", "toLocaleString",
     "__defineGetter__", "__defineSetter__", "__lookupGetter__", "__lookupSetter__"}

\* the tokens that pass `if (!deltas[dir])`: move displaces on the first eight and
\* succeeds in place on the others
AcceptedTokens == ValidTokens \cup ObjectPrototypeKeys

\* the strings move is called with
Tokens == ValidTokens \cup
          {"constructor", "toString", "valueOf", "hasOwnProperty", "__proto__"} \cup
          {"", "up"}

----------------------------------------------------------------------------
\* Secure random: secureRandomInt(max), the same function in both programs.
\* The unsigned word that crypto.getRandomValues fills is scaled down from 2^32 values
\* to WordValues values 0 .. WordValues-1.

\* maxUint32 = 0xFFFFFFFF: the largest value of the word
maxUint32 == WordValues - 1

\* limit = Math.floor(maxUint32 / max) * max
randomLimit(max) == (maxUint32 \div max) * max

accepts_Inclusive(max, word) == word <= randomLimit(max)

\* if (array[0] < limit): the draw is returned, else the loop draws again
accepts(max, word) == word < randomLimit(max)

\* return array[0] % max
randomValue(max, word) == word % max

\* one pass of `while (true)`: a word is drawn, and returned modulo max or dropped
SecureRandomIntDraw ==
    /\ rng.pc \in {"called", "redraw"}
    /\ \E word \in 0 .. maxUint32 :
          rng' = IF accepts(rng.max, word)
                 THEN [pc |-> "returned", max |-> rng.max, draw |-> word,
                       value |-> randomValue(rng.max, word)]
                 ELSE [pc |-> "redraw", max |-> rng.max, draw |-> word]
    /\ UNCHANGED <<variant, size, exit, position, turn, visited, keys, game, output,
                   search, last, history, limit>>

----------------------------------------------------------------------------
\* Coordinate model

Coord(cx, cy, cz, cw) == [x |-> cx, y |-> cy, z |-> cz, w |-> cw]

\* getCenter(): mid = Math.floor(size / 2) on all four axes
getCenter(n) == Coord(n \div 2, n \div 2, n \div 2, n \div 2)

\* randomStart(): every axis is drawn by secureRandomInt(size), a value of 0..size-1
randomStart(n) == [Axes -> 0 .. (n - 1)]

\* key(c) / coordinateKey(c): the template string `${c.x},${c.y},${c.z},${c.w}`
key(c) == ToString(c.x) \o "," \o ToString(c.y) \o "," \o ToString(c.z) \o "," \o ToString(c.w)

isInside_NoLowerBound(c, n) == \A a \in {"x", "y", "z", "w"} : c[a] < n

isInside_OffByOne(c, n) == \A a \in {"x", "y", "z", "w"} : c[a] >= 0 /\ c[a] <= n

\* isInside(c): every axis a has c[a] >= 0 && c[a] < size
isInside(c, n) == \A a \in {"x", "y", "z", "w"} : c[a] >= 0 /\ c[a] < n

isPrime_StrictSqrt(n) ==
    IF n < 2 THEN FALSE
    ELSE \A i \in 2 .. n : (i * i < n) => (n % i # 0)

\* isPrime(n): false below 2, then trial division by i = 2, 3, ... while i <= Math.sqrt(n)
isPrime(n) ==
    IF n < 2 THEN FALSE
    ELSE \A i \in 2 .. n : (i * i <= n) => (n % i # 0)

isTrapExtended_OldTurn(c, t) ==
    LET val == c.x * 7 + c.y * 11 + c.z * 13 + c.w * 17 + (t - 1) * 19
    IN  isPrime(val % TrapModulus)

isTrapExtended_NoTurn(c, t) ==
    LET val == c.x * 7 + c.y * 11 + c.z * 13 + c.w * 17
    IN  isPrime(val % TrapModulus)

isTrapExtended_Modulus89(c, t) ==
    LET val == c.x * 7 + c.y * 11 + c.z * 13 + c.w * 17 + t * 19
    IN  isPrime(val % 89)

\* isTrap(c) of the extended engine: reads this.turn
isTrapExtended(c, t) ==
    LET val == c.x * 7 + c.y * 11 + c.z * 13 + c.w * 17 + t * 19
    IN  isPrime(val % TrapModulus)

isTrapMinimal_WithoutW(c) ==
    LET sum == c.x + c.y + c.z
    IN  isPrime(sum)

\* isTrap(c) of the minimal engine
isTrapMinimal(c) ==
    LET sum == c.x + c.y + c.z + c.w
    IN  isPrime(sum)

isExit_IgnoresW(c, e) == c.x = e.x /\ c.y = e.y /\ c.z = e.z

\* isExit(c): component-wise comparison with this.exit
isExit(c, e) == c.x = e.x /\ c.y = e.y /\ c.z = e.z /\ c.w = e.w

----------------------------------------------------------------------------
\* move(dir)

\* the object literal `deltas`: each own property maps one axis to +1 or -1
deltas ==
    [xp |-> [a \in {"x"} |-> 1], xn |-> [a \in {"x"} |-> -1],
     yp |-> [a \in {"y"} |-> 1], yn |-> [a \in {"y"} |-> -1],
     zp |-> [a \in {"z"} |-> 1], zn |-> [a \in {"z"} |-> -1],
     wp |-> [a \in {"w"} |-> 1], wn |-> [a \in {"w"} |-> -1]]

\* deltas[dir]: an own property, else a property inherited from Object.prototype
\* (a function or an object: truthy, and without enumerable properties), else undefined.
\*   truthy : the value of !!deltas[dir]
\*   enum   : the axis -> delta pairs that `for (let axis in deltas[dir])` visits
deltasLookup(dir) ==
    IF dir \in DOMAIN deltas
    THEN [truthy |-> TRUE, enum |-> deltas[dir]]
    ELSE IF dir \in ObjectPrototypeKeys
         THEN [truthy |-> TRUE, enum |-> [a \in {} |-> 0]]
         ELSE [truthy |-> FALSE, enum |-> [a \in {} |-> 0]]

\* next = { ...this.position }; for (axis in deltas[dir]) next[axis] += deltas[dir][axis]
candidate(pos, dir) ==
    LET d == deltasLookup(dir).enum
    IN  [a \in Axes |-> IF a \in DOMAIN d THEN pos[a] + d[a] ELSE pos[a]]

\* what a move call returns
InvalidDirection == [error |-> "Invalid direction."]
OutOfBoundsExtended == [error |-> "You hit the boundary wall."]
OutOfBoundsMinimal == [error |-> "You hit a wall of the hypercube."]
IsError(r) == "error" \in DOMAIN r
IsSuccess(r) == ~IsError(r)

\* the record `last` of a call
Call(dir, r) ==
    [op |-> "move", dir |-> dir,
     pre |-> [position |-> position, turn |-> turn, visited |-> visited],
     result |-> r]

NoCall == [op |-> "none"]

MapSet_KeepFirst(m, k, v) ==
    [j \in (DOMAIN m) \cup {k} |-> IF j \in DOMAIN m THEN m[j] ELSE v]

\* this.visited.set(k, v) on a Map: adds the key, or replaces the value of a key already there
MapSet(m, k, v) == [j \in (DOMAIN m) \cup {k} |-> IF j = k THEN v ELSE m[j]]

\* the insertion order after this.visited.set(k, v): a new key goes last, a key already
\* there keeps its place
MapSetOrder(ks, k) == IF \E i \in 1 .. Len(ks) : ks[i] = k THEN ks ELSE Append(ks, k)

\* move(dir) of the extended engine
MoveExtended(dir) ==
    /\ variant = "extended"
    /\ Len(history) < limit
    /\ IF ~deltasLookup(dir).truthy
       THEN /\ last' = Call(dir, InvalidDirection)
            /\ UNCHANGED <<position, turn, visited, keys, history>>
       ELSE LET next == candidate(position, dir) IN
            IF ~isInside(next, size)
            THEN /\ last' = Call(dir, OutOfBoundsExtended)
                 /\ UNCHANGED <<position, turn, visited, keys, history>>
            ELSE LET trap == isTrapExtended(next, turn + 1) IN
                 /\ turn' = turn + 1
                 /\ position' = next
                 /\ visited' = MapSet(visited, key(next), [trap |-> trap, turn |-> turn + 1])
                 /\ keys' = MapSetOrder(keys, key(next))
                 /\ last' = Call(dir, [position |-> next, trap |-> trap,
                                       exit |-> isExit(next, exit), turn |-> turn + 1])
                 /\ history' = Append(history,
                                  [from |-> position, to |-> next, trap |-> trap])
    /\ UNCHANGED <<variant, size, exit, limit, rng, search>>

\* move(dir) of the minimal engine
MoveMinimal(dir) ==
    /\ variant = "minimal"
    /\ Len(history) < limit
    /\ IF ~deltasLookup(dir).truthy
       THEN /\ last' = Call(dir, InvalidDirection)
            /\ UNCHANGED <<position, visited, history>>
       ELSE LET newPos == candidate(position, dir) IN
            IF ~isInside(newPos, size)
            THEN /\ last' = Call(dir, OutOfBoundsMinimal)
                 /\ UNCHANGED <<position, visited, history>>
            ELSE /\ position' = newPos
                 /\ visited' = visited \cup {key(newPos)}
                 /\ last' = Call(dir, [position |-> newPos, trap |-> isTrapMinimal(newPos),
                                       exit |-> isExit(newPos, exit)])
                 /\ history' = Append(history,
                                  [from |-> position, to |-> newPos,
                                   trap |-> isTrapMinimal(newPos)])
    /\ UNCHANGED <<variant, size, exit, turn, keys, limit, rng, search>>

----------------------------------------------------------------------------
\* Construction: new Hypercube(4) in src/hc-2.js, new Hypercube(5) in src/unnamed/part_000

InitExtended ==
    /\ variant = "extended"
    /\ size = ExtendedSize
    /\ turn = 0
    /\ exit = getCenter(ExtendedSize)
    /\ position \in randomStart(ExtendedSize)
    /\ visited = [k \in {} |-> [trap |-> FALSE, turn |-> 0]]
    /\ keys = <<>>

InitMinimal ==
    /\ variant = "minimal"
    /\ size = MinimalSize
    /\ visited = {}
    /\ exit = getCenter(MinimalSize)
    /\ position \in randomStart(MinimalSize)
    /\ turn = 0
    /\ keys = <<>>

\* no command loop, no console output, no secureRandomInt call in progress, no search
Idle ==
    /\ game = "Active"
    /\ output = <<>>
    /\ rng = [pc |-> "idle"]
    /\ search = [pc |-> "idle"]

\* cube.move(dir) called directly on the extended engine: move prints nothing
CallExtended(dir) == MoveExtended(dir) /\ output' = <<>> /\ UNCHANGED game

\* cube.move(dir) called directly on the minimal engine: move prints nothing
CallMinimal(dir) == MoveMinimal(dir) /\ output' = <<>> /\ UNCHANGED game

Init ==
    /\ InitExtended \/ InitMinimal
    /\ Idle
    /\ last = NoCall
    /\ history = <<>>
    /\ limit = MaxMoves

Next == \E dir \in Tokens : CallExtended(dir) \/ CallMinimal(dir)

Spec == Init /\ [][Next]_vars

----------------------------------------------------------------------------
\* Console output of the extended engine. A console.log call is a line; a line is the
\* sequence of the strings it is put together from (template parts, `row +=` pieces).
\* Emoji of the source texts are left out.

cellMarker_MemoryBeforeExit(pos, vis, ex, x, y, z) ==
    LET wLevel == pos.w
        coord == Coord(x, y, z, wLevel)
        k == key(coord)
    IN  IF pos.x = x /\ pos.y = y /\ pos.z = z /\ pos.w = wLevel THEN " P "
        ELSE IF k \in DOMAIN vis THEN (IF vis[k].trap THEN " X " ELSE " . ")
        ELSE IF isExit(coord, ex) THEN " E "
        ELSE " ? "

\* the marker renderSlice appends to `row` for the cell (x, y, z, wLevel)
cellMarker(pos, vis, ex, x, y, z) ==
    LET wLevel == pos.w
        coord == Coord(x, y, z, wLevel)
        k == key(coord)
    IN  IF pos.x = x /\ pos.y = y /\ pos.z = z /\ pos.w = wLevel THEN " P "
        ELSE IF isExit(coord, ex) THEN " E "
        ELSE IF k \in DOMAIN vis THEN (IF vis[k].trap THEN " X " ELSE " . ")
        ELSE " ? "

\* the lines of one y layer: its title, one row per z with one marker per x, an empty line
sliceLayer(pos, vis, ex, n, y) ==
    <<  <<"--- Y = ", ToString(y), " ---">>  >>
    \o [zi \in 1 .. n |-> [xi \in 1 .. n |-> cellMarker(pos, vis, ex, xi - 1, y, zi - 1)]]
    \o <<  <<"">>  >>

RECURSIVE sliceLayers(_, _, _, _, _)
\* the layers y, y+1, ..., n-1 (the loop `for (let y = 0; y < this.size; y++)`)
sliceLayers(pos, vis, ex, n, y) ==
    IF y >= n THEN <<>>
    ELSE sliceLayer(pos, vis, ex, n, y) \o sliceLayers(pos, vis, ex, n, y + 1)

sliceLegend ==
    << <<"Legend:">>, <<" P = You">>, <<" E = Exit (center)">>,
       <<" X = Known trap (when discovered)">>, <<" . = Known safe">>,
       <<" ? = Unvisited (unknown)">> >>

\* what renderSlice() prints
renderSlice(pos, vis, ex, n) ==
    << <<"3D Slice at W = ", ToString(pos.w)>>,
       <<"Z increases downward. X increases right. Y layers separated.">> >>
    \o sliceLayers(pos, vis, ex, n, 0)
    \o sliceLegend

\* what printHelp() prints
printHelp ==
    << <<"Movement Commands:">>,
       <<" xp -> +X (right)">>, <<" xn -> -X (left)">>,
       <<" yp -> +Y (forward layer)">>, <<" yn -> -Y (back layer)">>,
       <<" zp -> +Z (down)">>, <<" zn -> -Z (up)">>,
       <<" wp -> +W (next 3D slice)">>, <<" wn -> -W (previous 3D slice)">>,
       <<"Other Commands:">>,
       <<" map -> show visited memory">>, <<" view -> render 3D slice">>,
       <<" help -> show commands">>, <<" exit -> quit">> >>

\* what printMemory() prints: one line per entry of the Map, in insertion order
printMemory(vis, ks) ==
    << <<"Memory:">> >>
    \o [i \in 1 .. Len(ks) |->
          <<" ", ks[i], " -> ", IF vis[ks[i]].trap THEN "trap" ELSE "safe",
            " (turn ", ToString(vis[ks[i]].turn), ")">>]

\* the record `last` of a call that is not a move
Cmd(op, line) ==
    [op |-> op, line |-> line,
     pre |-> [position |-> position, turn |-> turn, visited |-> visited, exit |-> exit]]

RenderSlice_DropsMemory ==
    /\ output' = renderSlice(position, visited, exit, size)
    /\ visited' = [k \in {} |-> [trap |-> FALSE, turn |-> 0]]
    /\ UNCHANGED <<position, turn, exit, keys>>

\* cube.renderSlice(): prints, reads the fields of the engine and writes none
RenderSlice ==
    /\ output' = renderSlice(position, visited, exit, size)
    /\ UNCHANGED <<position, turn, exit, visited, keys>>

\* cube.printHelp()
PrintHelp ==
    /\ output' = printHelp
    /\ UNCHANGED <<position, turn, exit, visited, keys>>

\* cube.printMemory()
PrintMemory ==
    /\ output' = printMemory(visited, keys)
    /\ UNCHANGED <<position, turn, exit, visited, keys>>

----------------------------------------------------------------------------
\* The command loops. A line of input is a sequence of pieces, each a blank or a word.

Blank == " "

RECURSIVE join(_)
\* the string a line of input is
join(line) == IF line = <<>> THEN "" ELSE Head(line) \o join(Tail(line))

RECURSIVE trimStart(_)
trimStart(line) ==
    IF line # <<>> /\ Head(line) = Blank THEN trimStart(Tail(line)) ELSE line

RECURSIVE trimEnd(_)
trimEnd(line) ==
    IF line # <<>> /\ line[Len(line)] = Blank
    THEN trimEnd(SubSeq(line, 1, Len(line) - 1)) ELSE line

\* String.prototype.trim(): the line without its leading and trailing blanks
trim(line) == join(trimEnd(trimStart(line)))

\* the lines typed in the model
Lines ==
    {<<t>> : t \in ValidTokens \cup {"exit", "help", "view", "map", "constructor"}}
    \cup {<<>>, <<"exit", Blank>>, <<Blank, "view">>}

Outcome_ExitFirst(result) ==
    IF result.exit THEN "Exited"
    ELSE IF result.trap THEN "Trapped"
    ELSE "Active"

Outcome_ExitIgnored(result) ==
    IF result.trap THEN "Trapped" ELSE "Active"

\* how prompt goes on after a move that returned a success result:
\* if (result.trap) process.exit(0); if (result.exit) process.exit(0); else prompt()
Outcome(result) ==
    IF result.trap THEN "Trapped"
    ELSE IF result.exit THEN "Exited"
    ELSE "Active"

positionLine(c) == <<"Position:", ToString(c.x), ToString(c.y), ToString(c.z), ToString(c.w)>>

\* the callback of rl.question in src/hc-2.js, run on one line of input
PromptExtended(line) ==
    /\ variant = "extended"
    /\ game = "Active"
    /\ LET cmd == trim(line) IN
       IF cmd = "exit"
       THEN /\ game' = "Quit"
            /\ output' = <<>>
            /\ last' = Cmd("exit", line)
            /\ UNCHANGED <<variant, size, exit, position, turn, visited, keys,
                           history, limit, rng, search>>
       ELSE IF cmd = "help"
       THEN /\ PrintHelp
            /\ last' = Cmd("help", line)
            /\ UNCHANGED <<variant, size, game, history, limit, rng, search>>
       ELSE IF cmd = "view"
       THEN /\ RenderSlice
            /\ last' = Cmd("view", line)
            /\ UNCHANGED <<variant, size, game, history, limit, rng, search>>
       ELSE IF cmd = "map"
       THEN /\ PrintMemory
            /\ last' = Cmd("map", line)
            /\ UNCHANGED <<variant, size, game, history, limit, rng, search>>
       ELSE /\ MoveExtended(cmd)
            /\ LET result == last'.result IN
               IF IsError(result)
               THEN /\ output' = << <<"warning", result.error>> >>
                    /\ game' = "Active"
               ELSE /\ game' = Outcome(result)
                    /\ output' =
                         << <<"Turn ", ToString(result.turn)>>, positionLine(result.position) >>
                         \o (IF result.trap
                             THEN << <<"The room shifted into a lethal state.">> >>
                             ELSE IF result.exit
                             THEN << <<"You found the exit at the center!">> >>
                             ELSE renderSlice(position', visited', exit', size'))

\* the callback of rl.question in src/unnamed/part_000, run on one line of input
PromptMinimal(line) ==
    /\ variant = "minimal"
    /\ game = "Active"
    /\ IF join(line) = "exit"
       THEN /\ game' = "Quit"
            /\ output' = << <<"You surrender to the maze.">> >>
            /\ last' = Cmd("exit", line)
            /\ UNCHANGED <<variant, size, exit, position, turn, visited, keys,
                           history, limit, rng, search>>
       ELSE /\ MoveMinimal(trim(line))
            /\ LET result == last'.result IN
               IF IsError(result)
               THEN /\ output' = << <<"warning", result.error>> >>
                    /\ game' = "Active"
               ELSE /\ game' = Outcome(result)
                    /\ output' =
                         << positionLine(result.position) >>
                         \o (IF result.trap
                             THEN << <<"The room was trapped. You did not survive.">> >>
                             ELSE IF result.exit
                             THEN << <<"You found the exit at the center of the hypercube!">> >>
                             ELSE <<>>)

\* the programs up to their first prompt(): the engine is built, the greeting printed
Greeted ==
    /\ \/ /\ InitExtended
          /\ output = << <<"You awaken inside a shifting hypercube.">> >>
                      \o printHelp \o renderSlice(position, visited, exit, size)
       \/ /\ InitMinimal
          /\ output = << <<"You awaken inside a shifting hypercube...">>,
                         <<"Type: xp xn yp yn zp zn wp wn">>,
                         <<"Type: exit to quit">>,
                         <<"Starting position:", ToString(position.x), ToString(position.y),
                           ToString(position.z), ToString(position.w)>> >>
    /\ game = "Active"
    /\ rng = [pc |-> "idle"]
    /\ search = [pc |-> "idle"]
    /\ last = NoCall
    /\ history = <<>>

\* games of at most MaxLoopMoves calls of move, with any lines typed between and after
InitLoop == Greeted /\ limit = MaxLoopMoves

\* games of at most MaxGameMoves calls of move
InitGame == Greeted /\ limit = MaxGameMoves

NextLoop == \E line \in Lines : PromptExtended(line) \/ PromptMinimal(line)

SpecLoop == InitLoop /\ [][NextLoop]_vars

SpecGame == InitGame /\ [][NextLoop]_vars

\* The extended program with the lines that move the player and the lines that print
\* what the engine remembers.
MemoryLines == {<<t>> : t \in ValidTokens \cup {"view", "map"}}

InitMemory == Greeted /\ variant = "extended" /\ limit = MaxMemoryMoves

NextMemory == \E line \in MemoryLines : PromptExtended(line)

SpecMemory == InitMemory /\ [][NextMemory]_vars

\* The extended engine called with the eight direction tokens and one unknown token,
\* over runs long enough to enter a cell, leave it and enter it again.
RevisitTokens == ValidTokens \cup {""}

InitRevisit ==
    /\ InitExtended
    /\ Idle
    /\ last = NoCall
    /\ history = <<>>
    /\ limit = MaxRevisitMoves

NextRevisit == \E dir \in RevisitTokens : CallExtended(dir)

SpecRevisit == InitRevisit /\ [][NextRevisit]_vars

\* secureRandomInt(max) called on its own; no engine is built
NoEngine ==
    /\ variant = "none"
    /\ size = 0
    /\ exit = Coord(0, 0, 0, 0)
    /\ position = Coord(0, 0, 0, 0)
    /\ turn = 0
    /\ visited = {}
    /\ keys = <<>>
    /\ game = "Active"
    /\ output = <<>>
    /\ last = NoCall
    /\ history = <<>>
    /\ limit = 0

InitRandom ==
    /\ NoEngine
    /\ search = [pc |-> "idle"]
    /\ \E max \in 1 .. MaxRandomMax : rng = [pc |-> "called", max |-> max]

NextRandom == SecureRandomIntDraw

SpecRandom == InitRandom /\ [][NextRandom]_vars

\* All games over the commands of search.commands at once: search.cells holds the cells
\* on which some sequence of search.steps successful moves on these commands leaves the
\* game Active, starting from the cell the engine was built on; search.pc is "won" when
\* a sequence reached Exited and "lost" when no sequence of these commands can.
\* search.commands is ValidTokens (the games of direction tokens) or AcceptedTokens (the
\* games of every line on which move succeeds, the moves in place included).

\* the trap flag move returns for entering c with the move number t
trapOnEntry(c, t) == IF variant = "extended" THEN isTrapExtended(c, t) ELSE isTrapMinimal(c)

\* the cells the successful moves on `commands` lead to from the cells of `from`
stepsFrom(from, commands) ==
    {c \in {candidate(p, dir) : p \in from,
                                dir \in {d \in commands : deltasLookup(d).truthy}} :
        isInside(c, size)}

\* the trap predicate of the extended engine repeats with the turn modulo TrapModulus
phase(t) == IF variant = "extended" THEN t % TrapModulus ELSE 0

\* one more command after every sequence explored so far
Explore ==
    /\ search.pc = "run"
    /\ search.steps < MaxSearchSteps
    /\ LET t == search.steps + 1
           entered == stepsFrom(search.cells, search.commands)
           found(pc, cells, seen) ==
               [pc |-> pc, steps |-> t, cells |-> cells, seen |-> seen,
                commands |-> search.commands]
           outcome(c) == Outcome([trap |-> trapOnEntry(c, t), exit |-> isExit(c, exit)])
           active == {c \in entered : outcome(c) = "Active"}
       IN  search' =
             IF \E c \in entered : outcome(c) = "Exited"
             THEN found("won", active, search.seen)
             ELSE IF active = {} \/ <<active, phase(t)>> \in search.seen
             THEN found("lost", active, search.seen)
             ELSE found("run", active, search.seen \cup {<<active, phase(t)>>})
    /\ UNCHANGED <<variant, size, exit, position, turn, visited, keys, game, output,
                   rng, last, history, limit>>

InitSearch ==
    /\ InitExtended \/ InitMinimal
    /\ game = "Active"
    /\ output = <<>>
    /\ rng = [pc |-> "idle"]
    /\ last = NoCall
    /\ history = <<>>
    /\ limit = 0
    /\ \E commands \in {ValidTokens, AcceptedTokens} :
          search = [pc |-> "run", steps |-> 0, cells |-> {position},
                    seen |-> {<<{position}, 0>>}, commands |-> commands]

NextSearch == Explore

SpecSearch == InitSearch /\ [][NextSearch]_vars

\* The extended engine with move and renderSlice called directly, in any order.
ViewTokens == ValidTokens

\* cube.renderSlice() called directly
CallRenderSlice ==
    /\ variant = "extended"
    /\ RenderSlice
    /\ last' = Cmd("renderSlice", <<>>)
    /\ UNCHANGED <<variant, size, game, history, limit, rng, search>>

InitView ==
    /\ InitExtended
    /\ Idle
    /\ last = NoCall
    /\ history = <<>>
    /\ limit = MaxViewMoves

NextView == (\E dir \in ViewTokens : CallExtended(dir)) \/ CallRenderSlice

SpecView == InitView /\ [][NextView]_vars

----------------------------------------------------------------------------
\* Vocabulary of the properties

\* n is a prime number
IsPrimeNumber(n) == n >= 2 /\ \A d \in 2 .. (n - 1) : n % d # 0

\* the axis and the sign a direction token names
AxisOf(dir) == CASE dir \in {"xp", "xn"} -> "x" [] dir \in {"yp", "yn"} -> "y"
                 [] dir \in {"zp", "zn"} -> "z" [] dir \in {"wp", "wn"} -> "w"
SignOf(dir) == IF dir \in {"xp", "yp", "zp", "wp"} THEN 1 ELSE -1

\* the position one step from pos in direction dir
Shifted(pos, dir) == [pos EXCEPT ![AxisOf(dir)] = @ + SignOf(dir)]

InGrid(c) == \A a \in Axes : c[a] \in 0 .. (size - 1)

\* the latest call was a move
Moved == last.op = "move"
MovedOk == Moved /\ IsSuccess(last.result)

\* the latest call left position, turn and visited as they were
StateKept ==
    /\ position = last.pre.position
    /\ turn = last.pre.turn
    /\ visited = last.pre.visited

\* the keys of visited
VisitedKeys == IF variant = "extended" THEN DOMAIN visited ELSE visited

\* the successful calls that displaced the player
Displacing == {i \in 1 .. Len(history) : history[i].from # history[i].to}

\* the successful calls that ended on the cell with key k
Entries(k) == {i \in 1 .. Len(history) : key(history[i].to) = k}
Min(S) == CHOOSE m \in S : \A n \in S : m <= n
Max(S) == CHOOSE m \in S : \A n \in S : m >= n

----------------------------------------------------------------------------
\* C1: a move with a token that is not one of the eight direction tokens returns
\* an error result and leaves position, turn and visited as they were.
C1_UnknownTokenRejected ==
    (Moved /\ last.dir \notin ValidTokens) => (IsError(last.result) /\ StateKept)

\* C2: a move with a direction token whose candidate coordinate lies outside
\* the grid returns an error result and leaves position, turn and visited as they were.
C2_OutOfBoundsRejected ==
    (Moved /\ last.dir \in ValidTokens /\ ~InGrid(Shifted(last.pre.position, last.dir)))
        => (IsError(last.result) /\ StateKept)

\* size 5, position (0,0,0,0), move xn was rejected
C2_Witness ==
    /\ Moved /\ size = 5 /\ last.dir = "xn"
    /\ last.pre.position = Coord(0, 0, 0, 0)
    /\ IsError(last.result)
    /\ position = Coord(0, 0, 0, 0)

\* C3: in every reachable state each component of position is an integer in [0, size).
C3_PositionInGrid == \A a \in Axes : position[a] \in 0 .. (size - 1)

\* after a successful move onto the upper face, a move across that face was rejected
C3_Witness ==
    /\ Moved /\ last.dir = "wp" /\ IsError(last.result)
    /\ Len(history) >= 1
    /\ position.w = size - 1 /\ position.x = 0

\* C4: a move that returns a success result changes exactly one component of
\* position by exactly +1 or -1 and leaves the other three unchanged.
C4_SingleAxisStep ==
    MovedOk =>
        \E a \in Axes :
            /\ position[a] - last.pre.position[a] \in {1, -1}
            /\ \A b \in Axes \ {a} : position[b] = last.pre.position[b]

\* C5: in the extended variant turn is the number of calls that displaced the
\* player, and a call that does not displace the player does not change turn.
C5_TurnCountsDisplacements ==
    variant = "extended" =>
        /\ turn = Cardinality(Displacing)
        /\ (Moved /\ position = last.pre.position) => turn = last.pre.turn

\* C6: exit is the center (floor(size/2) on all four axes) in every state, and
\* the exit flag of a successful move is true exactly when the new position is the center.
C6_ExitIsCenter ==
    /\ \A a \in Axes : 2 * exit[a] <= size /\ size < 2 * exit[a] + 2
    /\ MovedOk =>
          (last.result.exit <=> \A a \in Axes : 2 * position[a] \in {size, size - 1})

\* size 5, after an earlier move, the move wp from (2,2,2,1) succeeded with exit = true
C6_Witness ==
    /\ MovedOk /\ size = 5 /\ last.dir = "wp"
    /\ Len(history) = 2
    /\ last.pre.position = Coord(2, 2, 2, 1)
    /\ last.result.exit

\* C7: the keys of visited are exactly the cells the player moved into by a
\* one-step displacement since construction.
C7_VisitedIsEnteredCells ==
    VisitedKeys = {key(history[i].to) : i \in Displacing}

\* C8: in the extended variant the trap flag recorded for a cell stays the one
\* written on the first entry into that cell.
C8_TrapFlagOfFirstEntry ==
    variant = "extended" =>
        \A k \in DOMAIN visited : visited[k].trap = history[Min(Entries(k))].trap

\* C8 (amended): in the extended variant no key of visited is ever removed, and
\* the record of a cell holds the trap flag and the turn of the latest entry into it.
C8_TrapFlagOfLatestEntry ==
    variant = "extended" =>
        /\ Moved => (DOMAIN last.pre.visited) \subseteq (DOMAIN visited)
        /\ \A k \in DOMAIN visited :
              /\ Entries(k) # {}
              /\ visited[k].trap = history[Max(Entries(k))].trap
              /\ visited[k].turn = Max(Entries(k))

\* a cell was entered twice, with different trap flags, and visited holds the later one
C8_Witness ==
    \E i, j \in 1 .. Len(history) :
        /\ i < j
        /\ history[i].to = history[j].to
        /\ history[i].from # history[i].to
        /\ history[j].from # history[j].to
        /\ history[i].trap # history[j].trap
        /\ j = Max(Entries(key(history[j].to)))
        /\ visited[key(history[j].to)].trap = history[j].trap

\* C9: in the extended variant a successful move from turn t into (x,y,z,w)
\* returns and records trap = ((7x + 11y + 13z + 17w + 19(t+1)) mod 97 is prime)
\* and returns and records turn t+1.
C9_TrapOfNewTurn ==
    (variant = "extended" /\ MovedOk) =>
        LET t == last.pre.turn
            c == last.result.position
            r == (7 * c.x + 11 * c.y + 13 * c.z + 17 * c.w + 19 * (t + 1)) % 97
        IN  /\ last.result.trap = IsPrimeNumber(r)
            /\ visited[key(c)].trap = IsPrimeNumber(r)
            /\ last.result.turn = t + 1
            /\ visited[key(c)].turn = t + 1

\* the second successful move of a run stepped onto a trap
C9_Witness ==
    /\ variant = "extended" /\ MovedOk
    /\ last.pre.turn = 1
    /\ last.pre.position # position
    /\ last.result.trap
    /\ visited[key(position)] = [trap |-> TRUE, turn |-> 2]

\* C10: in the minimal variant the trap flag returned on entering (x,y,z,w) is
\* true exactly when x+y+z+w is prime, on every entry.
C10_TrapIsPrimeSum ==
    variant = "minimal" =>
        /\ MovedOk => last.result.trap = history[Len(history)].trap
        /\ \A i \in 1 .. Len(history) :
              LET c == history[i].to
              IN  history[i].trap = IsPrimeNumber(c.x + c.y + c.z + c.w)

\* the second successful move of a run stepped onto a cell with prime coordinate sum
C10_Witness ==
    /\ variant = "minimal" /\ MovedOk
    /\ Len(history) = 2
    /\ last.pre.position # position
    /\ last.result.trap
    /\ IsPrimeNumber(position.x + position.y + position.z + position.w)

----------------------------------------------------------------------------
\* Vocabulary of the command loop

OnCenter == \A a \in Axes : position[a] = size \div 2

\* the latest command printed without calling move
Rendered == last.op \in {"help", "view", "map"}

\* the pieces of all lines of the latest output
OutputPieces == UNION {{output[i][j] : j \in 1 .. Len(output[i])} : i \in 1 .. Len(output)}

\* C11: in the extended command loop a successful move that puts the player on
\* the center cell ends the game in the Exited state, never in Trapped.
C11_CenterMeansExited ==
    (variant = "extended" /\ MovedOk /\ OnCenter) => game = "Exited"

\* the state of the game agrees with the latest command
C12_GameFollowsCommand ==
    /\ game \in {"Active", "Trapped", "Exited", "Quit"}
    /\ last.op = "none" => game = "Active"
    /\ Rendered => game = "Active"
    /\ (Moved /\ IsError(last.result)) => (game = "Active" /\ StateKept)
    /\ (MovedOk /\ ~last.result.trap /\ ~last.result.exit) => game = "Active"
    /\ (MovedOk /\ (last.result.trap \/ last.result.exit)) => game \in {"Trapped", "Exited"}
    /\ game = "Trapped" => (MovedOk /\ last.result.trap)
    /\ game = "Exited" => (MovedOk /\ last.result.exit)
    /\ game = "Quit" <=> last.op = "exit"

\* C12: the game stays Active across failed moves and successful moves with
\* neither flag, leaves Active only on a successful move with trap or exit set
\* or on the quit command, and once it has left Active no command is
\* dispatched and nothing changes any more.
C12_StateMachine ==
    /\ []C12_GameFollowsCommand
    /\ [][game = "Active"]_vars

\* a move of the minimal game stepped on the center and ended the game at the exit
C12_Witness ==
    /\ variant = "minimal" /\ game = "Exited"
    /\ MovedOk /\ last.result.exit /\ ~last.result.trap
    /\ Len(history) = 1

\* C13: the commands view, help and map leave position, turn, exit and visited
\* unchanged, and rendering again in the same state prints the same output.
C13_RenderingKeepsState ==
    /\ [](Rendered =>
            /\ position = last.pre.position
            /\ turn = last.pre.turn
            /\ exit = last.pre.exit
            /\ visited = last.pre.visited)
    /\ [][(Rendered /\ last'.op = last.op) => output' = output]_vars

\* after a move, the command " view" rendered the slice a second time
C13_Witness ==
    /\ last.op = "view" /\ last.line = <<Blank, "view">>
    /\ Len(keys) = 1
    /\ output = renderSlice(position, visited, exit, size)

\* C20: in the extended command loop no record of visited has trap = true
\* while the game is Active, so no output shows a known trap; a record with
\* trap = true exists only in the Trapped state and only for the current position.
C20_NoKnownTrapWhileActive ==
    variant = "extended" =>
        /\ game = "Active" => \A k \in DOMAIN visited : ~visited[k].trap
        /\ game = "Active" => OutputPieces \cap {" X ", "trap"} = {}
        /\ \A k \in DOMAIN visited :
              visited[k].trap => (game = "Trapped" /\ k = key(position))

\* the second move of a game stepped on a trap: of the two records, the one of the
\* position has trap = true
C20_Witness ==
    /\ variant = "extended" /\ game = "Trapped"
    /\ Len(history) = 2
    /\ key(position) \in DOMAIN visited
    /\ visited[key(position)].trap
    /\ Cardinality(DOMAIN visited) = 2

----------------------------------------------------------------------------
\* Vocabulary of the slice

Center == [a \in Axes |-> size \div 2]

\* the marker of the cell (x, y, z) of the slice at w = position.w, by priority:
\* player, exit, known trap or known safe, unknown
MarkerByPriority(x, y, z) ==
    LET c == Coord(x, y, z, position.w)
    IN  CASE c = position -> " P "
          [] c # position /\ c = Center -> " E "
          [] c # position /\ c # Center /\ key(c) \in DOMAIN visited /\ visited[key(c)].trap
                -> " X "
          [] c # position /\ c # Center /\ key(c) \in DOMAIN visited /\ ~visited[key(c)].trap
                -> " . "
          [] OTHER -> " ? "

\* the printed row of layer y and row z: two title lines, then per layer a title, the
\* rows and an empty line
PrintedRow(y, z) == output[2 + y * (size + 2) + 2 + z]

\* C14: renderSlice prints for every cell (x,y,z) of the slice at w = position.w
\* the marker chosen by the priority player, exit (visited or not), known
\* trap / known safe, unknown; exactly one cell carries the player marker.
C14_MarkerPriority ==
    last.op = "renderSlice" =>
        /\ \A x, y, z \in 0 .. (size - 1) : PrintedRow(y, z)[x + 1] = MarkerByPriority(x, y, z)
        /\ Cardinality({c \in (0 .. (size - 1)) \X (0 .. (size - 1)) \X (0 .. (size - 1)) :
                           PrintedRow(c[2], c[3])[c[1] + 1] = " P "}) = 1

\* the slice was rendered after the player entered the center and left it along x:
\* the center is in visited and is printed as the exit
C14_Witness ==
    /\ last.op = "renderSlice"
    /\ key(Center) \in DOMAIN visited
    /\ position = [Center EXCEPT !.x = @ + 1]
    /\ PrintedRow(Center.y, Center.z)[Center.x + 1] = " E "
    /\ PrintedRow(Center.y, Center.z)[Center.x + 2] = " P "

----------------------------------------------------------------------------
\* Vocabulary of the random source

\* the draws of the word that secureRandomInt(max) returns as r
DrawsGiving(max, r) == {word \in 0 .. (WordValues - 1) : accepts(max, word) /\ randomValue(max, word) = r}

\* C15: secureRandomInt(max) returns only values in [0, max), and every value
\* of [0, max) is returned for the same number of draws of the word.
C15_UniformInRange ==
    rng.pc # "idle" =>
        /\ rng.pc = "returned" => rng.value \in 0 .. (rng.max - 1)
        /\ \A r \in 0 .. (rng.max - 1) :
              Cardinality(DrawsGiving(rng.max, r)) = Cardinality(DrawsGiving(rng.max, 0))
        /\ \A word \in 0 .. (WordValues - 1) :
              accepts(rng.max, word) => \E r \in 0 .. (rng.max - 1) : word \in DrawsGiving(rng.max, r)

\* secureRandomInt(5) returned the largest residue, for a draw in the last accepted block
C15_Witness ==
    /\ rng.pc = "returned" /\ rng.max = 5
    /\ rng.value = 4
    /\ rng.draw > WordValues - 10
    /\ Cardinality(DrawsGiving(5, 4)) > 1

\* C16: secureRandomInt(max) accepts a draw exactly when
\* draw < floor(2^32 / max) * max, so at least 2^32 - max + 1 draws are accepted
\* and no draw is rejected when max divides 2^32 (2^32 is WordValues here).
C16_LimitOfFullRange ==
    rng.pc \in {"returned", "redraw"} =>
        /\ rng.pc = "returned" <=> rng.draw < (WordValues \div rng.max) * rng.max
        /\ Cardinality({word \in 0 .. (WordValues - 1) : accepts(rng.max, word)})
              >= WordValues - rng.max + 1
        /\ WordValues % rng.max = 0 => rng.pc = "returned"

----------------------------------------------------------------------------
\* Vocabulary of the trap formula

\* (7x + 11y + 13z + 17w + 19t) mod 97
Residue(c, t) == (7 * c.x + 11 * c.y + 13 * c.z + 17 * c.w + 19 * t) % 97

\* C17: in the extended variant with size 4, position (1,1,1,1) and turn 0, at
\* least one of the eight moves succeeds onto a coordinate whose residue with
\* turn 1 is prime and returns trap = true with turn 1, and that coordinate is
\* not a trap with some other turn.
C17_TrapNextToOnes ==
    (variant = "extended" /\ position = Coord(1, 1, 1, 1) /\ turn = 0) =>
        \E dir \in ValidTokens :
            /\ ENABLED (/\ CallExtended(dir)
                        /\ IsSuccess(last'.result)
                        /\ last'.result.trap
                        /\ last'.result.turn = 1
                        /\ IsPrimeNumber(Residue(position', 1)))
            /\ \E t \in 2 .. 10 : ~IsPrimeNumber(Residue(Shifted(position, dir), t))

\* C17 (amended): with size 4, position (1,1,1,1) and turn 0 all eight moves
\* succeed with turn 1 and trap = false, no residue with turn 1 being prime; the
\* move xp from (0,0,0,1) at turn 0 enters (1,0,0,1) with trap = true and turn 1,
\* and (1,0,0,1) is not a trap with turn 3.
C17_NoTrapNextToOnes ==
    (variant = "extended" /\ Moved /\ last.pre.turn = 0 /\ last.dir \in ValidTokens) =>
        /\ last.pre.position = Coord(1, 1, 1, 1) =>
              /\ IsSuccess(last.result)
              /\ ~last.result.trap
              /\ last.result.turn = 1
              /\ ~IsPrimeNumber(Residue(position, 1))
        /\ (last.pre.position = Coord(0, 0, 0, 1) /\ last.dir = "xp") =>
              /\ IsSuccess(last.result)
              /\ last.result.trap
              /\ last.result.turn = 1
              /\ position = Coord(1, 0, 0, 1)
              /\ ~IsPrimeNumber(Residue(position, 3))

\* the move xn from (1,1,1,1) at turn 0 was made
C17_Witness ==
    /\ variant = "extended" /\ MovedOk
    /\ last.pre.position = Coord(1, 1, 1, 1)
    /\ last.pre.turn = 0
    /\ last.dir = "xn"
    /\ position = Coord(0, 1, 1, 1)

----------------------------------------------------------------------------
\* Vocabulary of the search

CoordinateSum(c) == c.x + c.y + c.z + c.w

\* the search has started from a cell other than the center
Searching(v) == variant = v /\ search.pc # "idle" /\ position # Center

\* the search follows the valid moves: the eight direction tokens
ValidMoves == search.commands = ValidTokens

\* the search follows every line on which move succeeds
AcceptedMoves == search.commands = AcceptedTokens

\* the starting cells of the extended game (size 4) from which no sequence of valid
\* moves wins
ExtendedLostStarts == {Coord(0, 1, 0, 0), Coord(1, 1, 3, 3), Coord(1, 2, 3, 2)}

\* C18: the minimal game (size 5) is winnable by valid moves from every starting
\* cell other than the center.
C18_WinnableEverywhere ==
    Searching("minimal") /\ ValidMoves => search.pc # "lost"

\* C18 (amended): the minimal game (size 5) is winnable from exactly the
\* starting cells other than the center whose coordinate sum is in 7 .. 11, by
\* at most 8 valid moves; from every other starting cell no sequence of moves
\* wins, whether of valid moves or of every line on which move succeeds.
C18_WinnableFromMiddleSums ==
    Searching("minimal") =>
        /\ search.pc = "won" => CoordinateSum(position) \in 7 .. 11
        /\ search.pc = "lost" => CoordinateSum(position) \notin 7 .. 11
        /\ search.steps >= 8 => search.pc # "run"

\* the start (0,0,4,4), with coordinate sum 8, takes eight valid moves to win
C18_Witness ==
    /\ Searching("minimal") /\ ValidMoves
    /\ search.pc = "won" /\ search.steps = 8
    /\ position = Coord(0, 0, 4, 4)

\* C19: the extended game (size 4) is winnable by valid moves, with a last result
\* exit = true and trap = false, from every starting cell other than the center.
C19_WinnableEverywhere ==
    Searching("extended") /\ ValidMoves => search.pc # "lost"

\* C19 (amended): the extended game (size 4) is winnable by valid moves, with a
\* last result exit = true and trap = false, from every starting cell other than
\* the center and other than (0,1,0,0), (1,1,3,3) and (1,2,3,2), by at most 8
\* moves; from these three cells every sequence of valid moves steps on a trap
\* within two moves, and only a move in place, which lets the turn pass, opens a
\* way to the center.
C19_WinnableButThree ==
    Searching("extended") =>
        /\ ValidMoves /\ search.pc = "won" => position \notin ExtendedLostStarts
        /\ ValidMoves /\ search.pc = "lost" =>
              (position \in ExtendedLostStarts /\ search.cells = {} /\ search.steps <= 2)
        /\ AcceptedMoves => search.pc # "lost"
        /\ search.steps >= 8 => search.pc # "run"

\* a start that takes eight valid moves to win
C19_Witness ==
    /\ Searching("extended") /\ ValidMoves
    /\ search.pc = "won" /\ search.steps = 8

====
